---- MODULE Spec2Model ----
(***************************************************************************)
(* State-machine model of the mamami client: the WebSocketService          *)
(* (connect / authenticate / reconnect / dispatch), the App-level direct   *)
(* message path, the ChatRoom message list, the axios interceptors and the *)
(* audio-call reducer with the Agora service and the call-event listeners. *)
(***************************************************************************)
EXTENDS Integers, Sequences, FiniteSets, TLC

\* ------------------------------------------------------------------ bounds
MaxSockets == 2
MaxRegs == 3
MaxTimers == 2
MaxLen == 3
MaxClock == 1
MaxResetTimers == 2
MaxDuration == 1
MaxListeners == 2

\* ------------------------------------------------------- program constants
maxReconnectAttempts == 2

Sock == 1..MaxSockets
NoSock == 0

VARIABLES
  \* WebSocketService fields
  ws, reconnectAttempts, messageHandlers, isAuthenticated, isConnecting,
  \* browser side of the service: sockets, timers, promises
  readyState, connTimer, authTimer, cleanupTimer, connPromise,
  authPromise, reconnectTimers,
  \* environment: localStorage and the server
  accessToken, srvAuthReq,
  \* App component state
  appWs,
  \* observers of the service
  opened, authedOn, regs, sinceOpen,
  \* ChatRoom: the visible message list and the clock Date.now() reads
  messages, now,
  \* the axios instance: localStorage items, the page, the request in flight
  lsAccessToken, lsRefreshToken, tokenAtLoad, apiVersion, inflight, page,
  \* AudioCallProvider and AgoraService
  callState, resetTimers, joinPc, leavePc, localAudioTrack,
  \* AudioCallProvider's useWebSocketConnection effect
  listenerPoll,
  \* DirectMessageChat: the friend prop, the message list, the history request,
  \* and the server's side of the direct messages
  friend, dmMessages, tempMessages, dmLoading, dmStored, dmEvents,
  \* the last observed operation
  ev

svcVars == <<ws, reconnectAttempts, messageHandlers, isAuthenticated, isConnecting>>
sockVars == <<readyState, connTimer, authTimer, cleanupTimer, connPromise,
              authPromise, reconnectTimers>>
envVars == <<accessToken, srvAuthReq>>
obsVars == <<opened, authedOn, regs, sinceOpen>>
wsVars == <<svcVars, sockVars, envVars, appWs, obsVars>>

chatVars == <<messages, now>>
httpVars == <<lsAccessToken, lsRefreshToken, tokenAtLoad, apiVersion, inflight, page>>
callVars == <<callState, resetTimers, joinPc, leavePc, localAudioTrack>>
provVars == <<listenerPoll>>
dmVars == <<friend, dmMessages, tempMessages, dmLoading, dmStored, dmEvents>>

vars == <<wsVars, chatVars, httpVars, callVars, provVars, dmVars, ev>>

\* each component's steps leave the other components alone
OnlyWS == UNCHANGED <<chatVars, httpVars, callVars, provVars, dmVars>>
OnlyChat == UNCHANGED <<wsVars, httpVars, callVars, provVars, dmVars>>
OnlyHttp == UNCHANGED <<wsVars, chatVars, callVars, provVars, dmVars>>
OnlyCall == UNCHANGED <<wsVars, chatVars, httpVars, provVars, dmVars>>
OnlyProvider == UNCHANGED <<chatVars, httpVars, callVars, dmVars>>
OnlyDM == UNCHANGED <<wsVars, chatVars, httpVars, callVars, provVars>>

\* null / undefined
Null == "null"

\* ------------------------------------------------------------ vocabulary
\* the message types handleMessage names explicitly, in the order of its tests
NamedTypes == <<"authenticated", "new-message", "joined-circle", "left-circle",
                "message-sent", "new-direct-message", "direct-message-sent",
                "friend-request-received", "friend-request-accepted",
                "friend-request-rejected", "friend-removed", "user-typing",
                "call-initiated", "incoming-call", "call-accepted", "call-rejected",
                "call-ended", "call-missed", "error">>
\* types that fall through to the generic branch
OtherTypes == {"friend-request-sent", "user-joined-circle"}
MsgTypes == {NamedTypes[i] : i \in 1..Len(NamedTypes)} \cup OtherTypes

AppHandlers == {[k |-> "app", id |-> 1], [k |-> "app", id |-> 2]}
AuthH(s) == [k |-> "auth", id |-> s]

\* error texts as word sequences, so that String.includes is a subsequence test
ErrInvalidToken == <<"Invalid", "or", "expired", "token">>
ErrConnTimeout == <<"WebSocket", "connection", "timeout">>
ErrAuthTimeout == <<"Authentication", "timeout">>
ErrAuthFailedDefault == <<"Authentication", "failed">>
ErrConnFailed == <<"WebSocket", "connection", "failed">>
NoText == <<>>
\* texts the server may put in an auth error message
ServerTexts == {NoText, <<"Invalid", "token">>, <<"Token", "expired">>}

includes(text, phrase) ==
  \E i \in 0..(Len(text) - Len(phrase)) :
    \A j \in 1..Len(phrase) : text[i + j] = phrase[j]

\* Math.floor(Date.now() / 1000) at the moment a token is validated
nowSec == 1

\* The tokens of the model, by name, with what decodeToken sees of each: the
\* number of dot-separated parts, whether JSON.parse(atob(parts[1])) succeeds,
\* and the exp claim of the payload.
TokenShape ==
  [t \in {"two-parts", "garbled", "expired", "expiring", "valid"} |->
     CASE t = "two-parts" -> [parts |-> 2, payload |-> "json", exp |-> nowSec + 1]
       [] t = "garbled"   -> [parts |-> 3, payload |-> "garbage", exp |-> nowSec + 1]
       [] t = "expired"   -> [parts |-> 3, payload |-> "json", exp |-> nowSec - 1]
       [] t = "expiring"  -> [parts |-> 3, payload |-> "json", exp |-> nowSec]
       [] t = "valid"     -> [parts |-> 3, payload |-> "json", exp |-> nowSec + 1]]

\* every value connect() may be handed, null included
TokenValues == DOMAIN TokenShape \cup {Null}

\* the token values that are null, malformed (not three parts, payload that
\* does not decode) or expired (exp <= now)
InvalidTokens ==
  {Null} \cup {t \in DOMAIN TokenShape :
                 \/ TokenShape[t].parts # 3
                 \/ TokenShape[t].payload # "json"
                 \/ TokenShape[t].exp <= nowSec}

\* tokenUtils.decodeToken: <<exp>> for a decoded payload, <<>> for null
decodeToken(token) ==
  LET t == TokenShape[token]
  IN  IF t.parts # 3 THEN <<>>
      ELSE IF t.payload # "json" THEN <<>>
      ELSE <<t.exp>>

\* a faulty validation that accepts a token in the second it expires
isValidTokenInclusive(token) ==
  /\ token # Null
  /\ decodeToken(token) # <<>>
  /\ decodeToken(token)[1] >= nowSec

\* tokenUtils.isValidToken
isValidToken(token) ==
  /\ token # Null
  /\ decodeToken(token) # <<>>
  /\ decodeToken(token)[1] > nowSec

NoEv == [op |-> "none"]

\* ===================================================== WebSocketService
\* what a rejected connect() means to the .catch of handleReconnect's timer
StopsReconnect(err) ==
  includes(err, <<"Authentication", "failed">>) \/ includes(err, <<"Invalid", "token">>)

\* send(message): the socket the frame is written to, NoSock when it is dropped
send(wsv, rs) == IF wsv # NoSock /\ rs[wsv] = "OPEN" THEN wsv ELSE NoSock

\* isConnected()
isConnected == isAuthenticated /\ ws # NoSock /\ readyState[ws] = "OPEN"

\* the part of the service a message handler or a promise reaction can change
Cur == [auth |-> isAuthenticated, conn |-> isConnecting, aT |-> authTimer,
        aP |-> authPromise, cP |-> connPromise, ra |-> reconnectAttempts,
        app |-> appWs, inv |-> <<>>]

\* A pending connect() promise is recorded by its caller ("app" or "reconnect"),
\* whose continuation runs when it settles; "none" is no pending promise.
\* appWs is what the component that created the service does with it: "none"
\* before it calls connect(), "connecting" while it awaits connect(), "held"
\* once connect() resolved (App.setWsService), "failed" once it rejected (the
\* service is not kept), "dropped" after disconnect().
\* resolve() of the connect() promise that created socket s, with the caller's
\* continuation
ResolveConn(s, st) ==
  IF st.cP[s] # "none"
  THEN [st EXCEPT !.cP[s] = "none",
                  !.app = IF st.cP[s] = "app" THEN "held" ELSE @]
  ELSE st

\* reject(err) of that promise, with the caller's .catch (handleReconnect's
\* timer stops reconnecting on an authentication failure)
RejectConn(s, err, st) ==
  IF st.cP[s] # "none"
  THEN [st EXCEPT !.cP[s] = "none",
                  !.app = IF st.cP[s] = "app" THEN "failed" ELSE @,
                  !.ra = IF st.cP[s] = "reconnect" /\ StopsReconnect(err)
                         THEN maxReconnectAttempts ELSE @]
  ELSE st

\* authResolve() and the .then of authenticationPromise
AuthResolve(s, st) ==
  IF st.aP[s] = "pending"
  THEN ResolveConn(s, [st EXCEPT !.aP[s] = "none", !.conn = FALSE])
  ELSE st

\* authReject(err) and the .catch of authenticationPromise
AuthReject(s, err, st) ==
  IF st.aP[s] = "pending"
  THEN RejectConn(s, err, [st EXCEPT !.aP[s] = "none", !.conn = FALSE])
  ELSE st

\* a faulty authHandler that takes every message it is called with for success
authHandlerAny(s, msg, st) ==
  AuthResolve(s, [st EXCEPT !.aT[s] = FALSE, !.auth = TRUE])

\* the temporary authHandler connect() registers in onopen of socket s
authHandler(s, msg, st) ==
  IF msg.type = "authenticated"
  THEN AuthResolve(s, [st EXCEPT !.aT[s] = FALSE, !.auth = TRUE])
  ELSE IF msg.type = "error" /\ msg.field = "auth"
  THEN AuthReject(s, IF msg.text = NoText THEN ErrAuthFailedDefault ELSE msg.text,
                  [st EXCEPT !.aT[s] = FALSE])
  ELSE st

\* one handler call: application handlers only get logged
CallHandler(h, msg, st) ==
  LET st1 == [st EXCEPT !.inv = Append(@, h)]
  IN  IF h.k = "auth" THEN authHandler(h.id, msg, st1) ELSE st1

RECURSIVE forEach(_, _, _)
forEach(hs, msg, st) ==
  IF hs = <<>> THEN st
  ELSE forEach(Tail(hs), msg, CallHandler(Head(hs), msg, st))

\* a faulty table of event names with one entry copied from its neighbour
HandlerKeyCopied(type) ==
  IF type = "direct-message-sent" THEN "message-sent" ELSE type

\* handleMessage: the event name whose handler list a message of this type gets
HandlerKey(type) ==
  IF type = "authenticated" THEN "authenticated"
  ELSE IF type = "new-message" THEN "new-message"
  ELSE IF type = "joined-circle" THEN "joined-circle"
  ELSE IF type = "left-circle" THEN "left-circle"
  ELSE IF type = "message-sent" THEN "message-sent"
  ELSE IF type = "new-direct-message" THEN "new-direct-message"
  ELSE IF type = "direct-message-sent" THEN "direct-message-sent"
  ELSE IF type = "friend-request-received" THEN "friend-request-received"
  ELSE IF type = "friend-request-accepted" THEN "friend-request-accepted"
  ELSE IF type = "friend-request-rejected" THEN "friend-request-rejected"
  ELSE IF type = "friend-removed" THEN "friend-removed"
  ELSE IF type = "user-typing" THEN "user-typing"
  ELSE IF type = "call-initiated" THEN "call-initiated"
  ELSE IF type = "incoming-call" THEN "incoming-call"
  ELSE IF type = "call-accepted" THEN "call-accepted"
  ELSE IF type = "call-rejected" THEN "call-rejected"
  ELSE IF type = "call-ended" THEN "call-ended"
  ELSE IF type = "call-missed" THEN "call-missed"
  ELSE IF type = "error" THEN "error"
  ELSE type

\* messageHandlers.get(event): no entry (undefined) runs nothing, like an empty list
get(tbl, e) == IF e \in DOMAIN tbl THEN tbl[e] ELSE <<>>

handleMessage(msg, st) == forEach(get(messageHandlers, HandlerKey(msg.type)), msg, st)

\* on(event, handler) / off(event, handler) on a handler table (a Map: its
\* domain is the set of event names that have an entry)
on(tbl, e, h) ==
  [k \in DOMAIN tbl \cup {e} |-> IF k = e THEN Append(get(tbl, e), h) ELSE tbl[k]]

IndexOf(seq, h) ==
  IF \E i \in 1..Len(seq) : seq[i] = h
  THEN CHOOSE i \in 1..Len(seq) : seq[i] = h /\ \A j \in 1..(i - 1) : seq[j] # h
  ELSE 0

Splice(seq, i) == [j \in 1..(Len(seq) - 1) |-> IF j < i THEN seq[j] ELSE seq[j + 1]]

off(tbl, e, h) ==
  LET i == IndexOf(get(tbl, e), h)
  IN  IF i > 0 THEN [tbl EXCEPT ![e] = Splice(@, i)] ELSE tbl

\* the registrations as one list in registration order (observer)
regOn(rg, e, h) == Append(rg, [e |-> e, h |-> h])
regOff(rg, e, h) ==
  LET i == IndexOf(rg, [e |-> e, h |-> h])
  IN  IF i > 0 THEN Splice(rg, i) ELSE rg

\* a faulty handleReconnect that sets the timer without counting the attempt
handleReconnectNoCount(ra) ==
  IF ra < maxReconnectAttempts
  THEN [ra |-> ra, sched |-> 1]
  ELSE [ra |-> ra, sched |-> 0]

\* handleReconnect(): the new counter and whether a timer was set
handleReconnect(ra) ==
  IF ra < maxReconnectAttempts
  THEN [ra |-> ra + 1, sched |-> 1]
  ELSE [ra |-> ra, sched |-> 0]

\* ws.onclose: reconnect only after an abnormal close below the limit
onclose(code, ra) ==
  IF code # 1000 /\ ra < maxReconnectAttempts
  THEN handleReconnect(ra)
  ELSE [ra |-> ra, sched |-> 0]

EmptyTable == [e \in {} |-> <<>>]

\* the service after construction
WSFresh ==
  /\ ws = NoSock
  /\ reconnectAttempts = 0
  /\ messageHandlers = EmptyTable
  /\ isAuthenticated = FALSE
  /\ isConnecting = FALSE
  /\ readyState = [s \in Sock |-> "NONE"]
  /\ connTimer = [s \in Sock |-> FALSE]
  /\ authTimer = [s \in Sock |-> FALSE]
  /\ cleanupTimer = [s \in Sock |-> FALSE]
  /\ connPromise = [s \in Sock |-> "none"]
  /\ authPromise = [s \in Sock |-> "none"]
  /\ reconnectTimers = 0
  /\ accessToken \in {"valid", "expired"}
  /\ srvAuthReq = [s \in Sock |-> FALSE]
  /\ appWs = "none"
  /\ opened = [s \in Sock |-> FALSE]
  /\ authedOn = [s \in Sock |-> FALSE]
  /\ regs = <<>>
  /\ sinceOpen = 0
  /\ ev = NoEv

\* A socket slot is free once its socket is closed and none of the timers and
\* promises created for it is pending: new WebSocket() takes the first free slot.
Free(s) ==
  /\ readyState[s] \in {"NONE", "CLOSED"}
  /\ ~connTimer[s] /\ ~authTimer[s] /\ ~cleanupTimer[s]
  /\ connPromise[s] = "none" /\ authPromise[s] = "none"

NewSock == CHOOSE s \in Sock : Free(s) /\ \A t \in Sock : Free(t) => s <= t

\* connect(token), called by `by` ("app" or "reconnect"); everything but the
\* reconnect timers, which the caller owns
connect(token, by) ==
  /\ UNCHANGED <<messageHandlers, isAuthenticated, authTimer, cleanupTimer,
                 authPromise, accessToken, srvAuthReq, opened, authedOn, regs,
                 sinceOpen>>
  /\ IF isConnecting \/ (ws # NoSock /\ readyState[ws] = "OPEN")
     THEN /\ appWs' = IF by = "app" THEN "held" ELSE appWs
          /\ ev' = [op |-> "connect", result |-> "resolved", err |-> NoText,
                    invalid |-> token \in InvalidTokens]
          /\ UNCHANGED <<ws, isConnecting, reconnectAttempts, readyState,
                         connTimer, connPromise>>
     ELSE IF ~isValidToken(token)
     THEN /\ isConnecting' = FALSE
          /\ reconnectAttempts' =
               IF by = "reconnect" /\ StopsReconnect(ErrInvalidToken)
               THEN maxReconnectAttempts ELSE reconnectAttempts
          /\ appWs' = IF by = "app" THEN "failed" ELSE appWs
          /\ ev' = [op |-> "connect", result |-> "rejected", err |-> ErrInvalidToken,
                    invalid |-> token \in InvalidTokens]
          /\ UNCHANGED <<ws, readyState, connTimer, connPromise>>
     ELSE /\ \E s \in Sock : Free(s)
          /\ isConnecting' = TRUE
          /\ ws' = NewSock
          /\ readyState' = [readyState EXCEPT ![NewSock] = "CONNECTING"]
          /\ connTimer' = [connTimer EXCEPT ![NewSock] = TRUE]
          /\ connPromise' = [connPromise EXCEPT ![NewSock] = by]
          /\ appWs' = IF by = "app" THEN "connecting" ELSE appWs
          /\ ev' = [op |-> "connect", result |-> "pending", err |-> NoText,
                    invalid |-> token \in InvalidTokens]
          /\ UNCHANGED reconnectAttempts

\* App.initializeWebSocket / ChatRoom.setupWebSocket: a new service is connected
\* once, with the stored token, by the component that created it
AppConnect ==
  /\ OnlyWS
  /\ appWs = "none"
  /\ connect(accessToken, "app")
  /\ UNCHANGED reconnectTimers

\* the setTimeout callback of handleReconnect
ReconnectTimerFire ==
  /\ OnlyWS
  /\ reconnectTimers > 0
  /\ reconnectTimers' = reconnectTimers - 1
  /\ IF isValidToken(accessToken)
     THEN connect(accessToken, "reconnect")
     ELSE /\ reconnectAttempts' = maxReconnectAttempts
          /\ ev' = NoEv
          /\ UNCHANGED <<ws, messageHandlers, isAuthenticated, isConnecting,
                         readyState, connTimer, authTimer, cleanupTimer, connPromise,
                         authPromise, accessToken, srvAuthReq, appWs,
                         opened, authedOn, regs, sinceOpen>>

\* ws.onopen of socket s
SocketOpen(s) ==
  /\ OnlyWS
  /\ readyState[s] = "CONNECTING"
  /\ readyState' = [readyState EXCEPT ![s] = "OPEN"]
  /\ connTimer' = [connTimer EXCEPT ![s] = FALSE]
  /\ reconnectAttempts' = 0
  /\ sinceOpen' = 0
  /\ LET to == send(ws, readyState') IN
       /\ srvAuthReq' = IF to # NoSock THEN [srvAuthReq EXCEPT ![to] = TRUE]
                        ELSE srvAuthReq
       /\ ev' = [op |-> "open", wrote |-> to]
  /\ authPromise' = [authPromise EXCEPT ![s] = "pending"]
  /\ authTimer' = [authTimer EXCEPT ![s] = TRUE]
  /\ messageHandlers' = on(on(messageHandlers, "authenticated", AuthH(s)),
                           "error", AuthH(s))
  /\ regs' = regOn(regOn(regs, "authenticated", AuthH(s)), "error", AuthH(s))
  /\ cleanupTimer' = [cleanupTimer EXCEPT ![s] = TRUE]
  /\ opened' = [opened EXCEPT ![s] = TRUE]
  /\ UNCHANGED <<ws, isAuthenticated, isConnecting, connPromise,
                 reconnectTimers, accessToken, appWs, authedOn>>

\* the 15 s connection timeout set by the connect() that created socket s
ConnTimeoutFire(s) ==
  /\ OnlyWS
  /\ connTimer[s]
  /\ connTimer' = [connTimer EXCEPT ![s] = FALSE]
  /\ IF ws # NoSock /\ readyState[ws] = "CONNECTING"
     THEN LET st == RejectConn(s, ErrConnTimeout, [Cur EXCEPT !.conn = FALSE]) IN
          /\ readyState' = [readyState EXCEPT ![ws] = "CLOSING"]
          /\ isConnecting' = st.conn
          /\ connPromise' = st.cP
          /\ reconnectAttempts' = st.ra
          /\ appWs' = st.app
     ELSE UNCHANGED <<readyState, isConnecting, connPromise, reconnectAttempts,
                      appWs>>
  /\ ev' = NoEv
  /\ UNCHANGED <<ws, messageHandlers, isAuthenticated, authTimer,
                 cleanupTimer, authPromise, reconnectTimers, accessToken,
                 srvAuthReq, opened, authedOn, regs, sinceOpen>>

\* the 15 s authentication timeout of socket s (set with the 6 s cleanup timer,
\* so it fires after it)
AuthTimeoutFire(s) ==
  /\ OnlyWS
  /\ authTimer[s]
  /\ ~cleanupTimer[s]
  /\ LET st == AuthReject(s, ErrAuthTimeout, [Cur EXCEPT !.aT[s] = FALSE]) IN
       /\ authTimer' = st.aT
       /\ authPromise' = st.aP
       /\ connPromise' = st.cP
       /\ isConnecting' = st.conn
       /\ reconnectAttempts' = st.ra
       /\ appWs' = st.app
  /\ ev' = NoEv
  /\ UNCHANGED <<ws, messageHandlers, isAuthenticated, readyState, connTimer,
                 cleanupTimer, reconnectTimers, accessToken, srvAuthReq,
                 opened, authedOn, regs, sinceOpen>>

\* the 6 s timer that removes the temporary auth handler of socket s
CleanupFire(s) ==
  /\ OnlyWS
  /\ cleanupTimer[s]
  /\ cleanupTimer' = [cleanupTimer EXCEPT ![s] = FALSE]
  /\ messageHandlers' = off(off(messageHandlers, "authenticated", AuthH(s)),
                            "error", AuthH(s))
  /\ regs' = regOff(regOff(regs, "authenticated", AuthH(s)), "error", AuthH(s))
  /\ ev' = NoEv
  /\ UNCHANGED <<ws, reconnectAttempts, isAuthenticated, isConnecting,
                 readyState, connTimer, authTimer, connPromise, authPromise,
                 reconnectTimers, accessToken, srvAuthReq, appWs, opened, authedOn,
                 sinceOpen>>

\* ws.onmessage of socket s: a frame is delivered only while the socket is OPEN
Deliver(s, msg) ==
  /\ OnlyWS
  /\ readyState[s] = "OPEN"
  /\ LET st == handleMessage(msg, Cur) IN
       /\ isAuthenticated' = st.auth
       /\ isConnecting' = st.conn
       /\ authTimer' = st.aT
       /\ authPromise' = st.aP
       /\ connPromise' = st.cP
       /\ reconnectAttempts' = st.ra
       /\ appWs' = st.app
       /\ ev' = [op |-> "message", sock |-> s, type |-> msg.type, invoked |-> st.inv]
  /\ authedOn' = IF msg.type = "authenticated" THEN [authedOn EXCEPT ![s] = TRUE]
                 ELSE authedOn
  /\ UNCHANGED <<ws, messageHandlers, readyState, connTimer, cleanupTimer,
                 reconnectTimers, accessToken, opened, regs, sinceOpen>>

\* the server answers the authenticate request it received on socket s
\* (srvAuthReq[s]: an authenticate frame was written to s since it opened)
ServerAuthReply(s, msg) ==
  /\ srvAuthReq[s]
  /\ UNCHANGED srvAuthReq
  /\ Deliver(s, msg)

ServerAuthenticated(s) ==
  ServerAuthReply(s, [type |-> "authenticated", field |-> "", text |-> NoText])

ServerAuthError(s) ==
  \E t \in ServerTexts :
    ServerAuthReply(s, [type |-> "error", field |-> "auth", text |-> t])

\* close and error events of socket s
SocketClose(s) ==
  /\ OnlyWS
  /\ readyState[s] \in {"CONNECTING", "OPEN", "CLOSING"}
  /\ \E code \in {1000, 1006}, withError \in BOOLEAN :
       /\ ~opened[s] => (code = 1006 /\ withError)
       /\ LET st0 == IF withError
                     THEN RejectConn(s, ErrConnFailed, [Cur EXCEPT !.conn = FALSE])
                     ELSE Cur
              r == onclose(code, st0.ra)
          IN  /\ reconnectTimers + r.sched <= MaxTimers
              /\ connPromise' = st0.cP
              /\ appWs' = st0.app
              /\ reconnectAttempts' = r.ra
              /\ reconnectTimers' = reconnectTimers + r.sched
              /\ sinceOpen' = sinceOpen + r.sched
              /\ ev' = [op |-> "close", code |-> code, sched |-> r.sched]
  /\ readyState' = [readyState EXCEPT ![s] = "CLOSED"]
  /\ connTimer' = [connTimer EXCEPT ![s] = FALSE]
  /\ isAuthenticated' = FALSE
  /\ isConnecting' = FALSE
  /\ srvAuthReq' = [srvAuthReq EXCEPT ![s] = FALSE]
  /\ opened' = [opened EXCEPT ![s] = FALSE]
  /\ authedOn' = [authedOn EXCEPT ![s] = FALSE]
  /\ UNCHANGED <<ws, messageHandlers, authTimer, cleanupTimer, authPromise,
                 accessToken, regs>>

\* disconnect(), called by the component that created the service (App on
\* logout, ChatRoom on unmount), which then lets go of it
Disconnect ==
  /\ OnlyWS
  /\ appWs \in {"connecting", "held", "failed"}
  /\ IF ws # NoSock
     THEN /\ readyState' = [readyState EXCEPT ![ws] =
                              IF @ \in {"CONNECTING", "OPEN"} THEN "CLOSING" ELSE @]
          /\ ws' = NoSock
     ELSE UNCHANGED <<ws, readyState>>
  /\ isAuthenticated' = FALSE
  /\ isConnecting' = FALSE
  /\ messageHandlers' = EmptyTable
  /\ regs' = <<>>
  /\ reconnectAttempts' = maxReconnectAttempts
  /\ appWs' = "dropped"
  /\ ev' = [op |-> "disconnect"]
  /\ UNCHANGED <<connTimer, authTimer, cleanupTimer, connPromise, authPromise,
                 reconnectTimers, accessToken, srvAuthReq, opened, authedOn,
                 sinceOpen>>

\* resetConnectionState()
ResetConnectionState ==
  /\ OnlyWS
  /\ reconnectAttempts' = 0
  /\ isConnecting' = FALSE
  /\ sinceOpen' = 0
  /\ ev' = NoEv
  /\ UNCHANGED <<ws, messageHandlers, isAuthenticated, sockVars, envVars, appWs,
                 opened, authedOn, regs>>

\* localStorage: the stored token expires, a login stores a fresh one
StorageChange ==
  /\ OnlyWS
  /\ \E t \in {"valid", "expired"} : t # accessToken /\ accessToken' = t
  /\ ev' = NoEv
  /\ UNCHANGED <<svcVars, sockVars, srvAuthReq, appWs, obsVars>>

\* on() / off() called by the application with one of its own handlers
AppRegs == SelectSeq(regs, LAMBDA r : r.h.k = "app")

On(e, h) ==
  /\ OnlyWS
  /\ Len(AppRegs) < MaxRegs
  /\ messageHandlers' = on(messageHandlers, e, h)
  /\ regs' = regOn(regs, e, h)
  /\ ev' = NoEv
  /\ UNCHANGED <<ws, reconnectAttempts, isAuthenticated, isConnecting, sockVars,
                 envVars, appWs, opened, authedOn, sinceOpen>>

Off(e, h) ==
  /\ OnlyWS
  /\ messageHandlers' = off(messageHandlers, e, h)
  /\ regs' = regOff(regs, e, h)
  /\ ev' = NoEv
  /\ UNCHANGED <<ws, reconnectAttempts, isAuthenticated, isConnecting, sockVars,
                 envVars, appWs, opened, authedOn, sinceOpen>>

\* a faulty acceptCall that leaves out the isAuthenticated test
acceptCallNoAuthCheck == send(ws, readyState)

\* the socket each call method writes its message to (NoSock: nothing is sent)
initiateCall ==
  IF ~isAuthenticated THEN NoSock
  ELSE IF ws = NoSock \/ readyState[ws] # "OPEN" THEN NoSock
  ELSE send(ws, readyState)

acceptCall == IF ~isAuthenticated THEN NoSock ELSE send(ws, readyState)

rejectCall == IF ~isAuthenticated THEN NoSock ELSE send(ws, readyState)

endCall == IF ~isAuthenticated THEN NoSock ELSE send(ws, readyState)

CallOps == {"initiate-call", "accept-call", "reject-call", "end-call"}

CallWrites(op) ==
  CASE op = "initiate-call" -> initiateCall
    [] op = "accept-call" -> acceptCall
    [] op = "reject-call" -> rejectCall
    [] op = "end-call" -> endCall

\* a call method: the socket it wrote to is observed, the service is unchanged
CallOp(op) ==
  /\ OnlyWS
  /\ ev' = [op |-> op, wrote |-> CallWrites(op), auth |-> isAuthenticated]
  /\ UNCHANGED wsVars

\* sendDirectMessage(receiverId, content)
sendDirectMessage == IF ~isAuthenticated THEN NoSock ELSE send(ws, readyState)

\* App.handleSendDirectMessage: the service when App holds one, else REST
handleSendDirectMessage ==
  IF appWs = "held" THEN (IF sendDirectMessage # NoSock THEN "ws" ELSE "lost")
  ELSE "rest"

\* DirectMessageChat.handleSendMessage with the wsService prop App passes down
handleSendMessageDM ==
  IF appWs = "held" THEN (IF sendDirectMessage # NoSock THEN "ws" ELSE "lost")
  ELSE handleSendDirectMessage

SubmitDirectMessage ==
  /\ OnlyWS
  /\ ev' = [op |-> "submit-dm", via |-> handleSendMessageDM,
            exhausted |-> (reconnectAttempts >= maxReconnectAttempts
                           /\ reconnectTimers = 0),
            connected |-> isConnected]
  /\ UNCHANGED wsVars

\* App's effect on [user]: on logout a held service is disconnected and let go
\* of; the next login builds a new WebSocketService, which the model shows as
\* the state after construction (what is left of the old one cannot reach it)
Logout ==
  /\ OnlyWS
  /\ appWs \in {"held", "failed"}
  /\ ws' = NoSock
  /\ reconnectAttempts' = 0
  /\ messageHandlers' = EmptyTable
  /\ isAuthenticated' = FALSE
  /\ isConnecting' = FALSE
  /\ readyState' = [s \in Sock |-> "NONE"]
  /\ connTimer' = [s \in Sock |-> FALSE]
  /\ authTimer' = [s \in Sock |-> FALSE]
  /\ cleanupTimer' = [s \in Sock |-> FALSE]
  /\ connPromise' = [s \in Sock |-> "none"]
  /\ authPromise' = [s \in Sock |-> "none"]
  /\ reconnectTimers' = 0
  /\ accessToken' \in {"valid", "expired"}
  /\ srvAuthReq' = [s \in Sock |-> FALSE]
  /\ appWs' = "none"
  /\ opened' = [s \in Sock |-> FALSE]
  /\ authedOn' = [s \in Sock |-> FALSE]
  /\ regs' = <<>>
  /\ sinceOpen' = 0
  /\ ev' = NoEv

\* ================================================================ ChatRoom
\* ids are a prefix and a number: 'temp-<Date.now()>' for an optimistic entry,
\* a server id otherwise
ServerIds == {<<"msg-", n>> : n \in 1..2}
Contents == {"a", "b"}
Users == {"me", "other"}
circleId == "open"
Circles == {circleId, "elsewhere"}

\* what the server can send or return for a message
ServerMessages ==
  [id : ServerIds, content : Contents, userId : Users, circleId : Circles]

\* m.id.startsWith('temp-')
startsWithTemp(id) == id[1] = "temp-"

\* prev.findIndex(...) of the 'new-message' handler, 0 for -1
tempMessageIndex(prev, message) ==
  LET hit(i) == /\ startsWithTemp(prev[i].id)
                /\ prev[i].content = message.content
                /\ prev[i].userId = message.userId
  IN  IF \E i \in 1..Len(prev) : hit(i)
      THEN CHOOSE i \in 1..Len(prev) : hit(i) /\ \A j \in 1..(i - 1) : ~hit(j)
      ELSE 0

\* the updater the 'new-message' handler passes to setMessages
onNewMessage(prev, message) ==
  IF \E i \in 1..Len(prev) : prev[i].id = message.id THEN prev
  ELSE IF tempMessageIndex(prev, message) # 0
  THEN [prev EXCEPT ![tempMessageIndex(prev, message)] = message]
  ELSE Append(prev, message)

\* the temporary message handleSendMessage builds
tempMessage(content, t) ==
  [id |-> <<"temp-", t>>, content |-> content, userId |-> "me", circleId |-> circleId]

reverse(data) == [i \in 1..Len(data) |-> data[Len(data) + 1 - i]]

\* what circlesAPI.getMessages can return: messages of the circle, ids distinct
Histories ==
  LET ofCircle == {x \in ServerMessages : x.circleId = circleId}
  IN  {<<>>} \cup {<<m>> : m \in ofCircle}
             \cup {h \in [1..2 -> ofCircle] : h[1].id # h[2].id}

\* no DirectMessageChat is mounted and the server stores no direct message
DMIdle ==
  /\ friend = "none" /\ dmMessages = <<>> /\ tempMessages = <<>>
  /\ dmLoading = FALSE
  /\ dmStored = {} /\ dmEvents = {}

ChatIdle == messages = <<>> /\ now = 0 /\ DMIdle

\* a 'new-message' event arrives
NewMessage(message) ==
  /\ OnlyChat
  /\ messages' = IF message.circleId = circleId
                 THEN onNewMessage(messages, message) ELSE messages
  /\ Len(messages') <= MaxLen
  /\ ev' = [op |-> "new-message", id |-> message.id, circleId |-> message.circleId,
            had |-> \E i \in 1..Len(messages) : messages[i].id = message.id,
            grew |-> Len(messages') - Len(messages)]
  /\ UNCHANGED now

\* handleSendMessage: the optimistic entry is appended, the frame is handed to
\* the service (sendMessage does not throw)
SendMessage(content) ==
  /\ OnlyChat
  /\ Len(messages) < MaxLen
  /\ messages' = Append(messages, tempMessage(content, now))
  /\ ev' = [op |-> "send-message"]
  /\ UNCHANGED now

\* loadMessages: the list is replaced by the reversed history (empty on failure)
LoadMessages(data) ==
  /\ OnlyChat
  /\ messages' = reverse(data)
  /\ ev' = [op |-> "load-messages"]
  /\ UNCHANGED now

\* the millisecond clock advances
Tick ==
  /\ OnlyChat
  /\ now < MaxClock
  /\ now' = now + 1
  /\ ev' = NoEv
  /\ UNCHANGED messages

\* =========================================================== axios instance
Tokens == {"t1", "t2"}
Statuses == {200, 401, 500}

\* the Authorization header for a stored item: `Bearer ${token}` as its two
\* words, empty when no header is set
NoHeader == <<>>
Bearer(token) == IF token # Null THEN <<"Bearer", token>> ELSE NoHeader

\* the request in flight: none, or the headers it left with
NoRequest == <<>>

\* a faulty request interceptor that uses the token read when the module loaded
requestInterceptorAtLoad == Bearer(tokenAtLoad)

\* api.interceptors.request: the header the request leaves with
requestInterceptor == Bearer(lsAccessToken)

\* api.interceptors.response on an error with this status: what is left in
\* localStorage, the page, and whether authAPI.refreshToken was called. The
\* first api.ts (version 1) clears the session on 401, the second only rejects.
responseInterceptor(status) ==
  IF apiVersion = 1 /\ status = 401
  THEN [access |-> Null, refresh |-> Null, page |-> "/login", refreshed |-> FALSE]
  ELSE [access |-> lsAccessToken, refresh |-> lsRefreshToken, page |-> page,
        refreshed |-> FALSE]

HttpIdle ==
  /\ lsAccessToken = Null /\ lsRefreshToken = Null /\ tokenAtLoad = Null
  /\ apiVersion = 2 /\ inflight = NoRequest /\ page = "/"

\* a login stores the tokens the server issued
Login ==
  /\ OnlyHttp
  /\ \E a \in Tokens, r \in Tokens : lsAccessToken' = a /\ lsRefreshToken' = r
  /\ page' = "/"
  /\ ev' = NoEv
  /\ UNCHANGED <<tokenAtLoad, apiVersion, inflight>>

\* any call made through the shared instance
Request ==
  /\ OnlyHttp
  /\ inflight = NoRequest
  /\ inflight' = <<[Authorization |-> requestInterceptor]>>
  /\ ev' = [op |-> "request", Authorization |-> requestInterceptor,
            stored |-> lsAccessToken]
  /\ UNCHANGED <<lsAccessToken, lsRefreshToken, tokenAtLoad, apiVersion, page>>

\* the server answers the request in flight
Response(status) ==
  /\ OnlyHttp
  /\ inflight # NoRequest
  /\ inflight' = NoRequest
  /\ LET r == IF status = 200
              THEN [access |-> lsAccessToken, refresh |-> lsRefreshToken,
                    page |-> page, refreshed |-> FALSE]
              ELSE responseInterceptor(status)
     IN  /\ lsAccessToken' = r.access
         /\ lsRefreshToken' = r.refresh
         /\ page' = r.page
         /\ ev' = [op |-> "response", status |-> status, refreshed |-> r.refreshed,
                   hadRefreshToken |-> lsRefreshToken # Null]
  /\ UNCHANGED <<tokenAtLoad, apiVersion>>

\* ============================================= AudioCallProvider, AgoraService
initialCallState ==
  [isInCall |-> FALSE, callId |-> Null, channelName |-> Null, agoraAppId |-> Null,
   token |-> Null, isCaller |-> FALSE, isReceiver |-> FALSE, callStatus |-> "IDLE",
   remoteUser |-> Null, duration |-> 0]

CallIds == {"c1", "c2"}
\* the payload the server sends with call-initiated / incoming-call for a call
CallData(c) ==
  [callId |-> c, channelName |-> IF c = "c1" THEN "channel1" ELSE "channel2",
   agoraAppId |-> "app", token |-> IF c = "c1" THEN "token1" ELSE "token2"]

callReducer(state, action) ==
  CASE action.type = "INITIATE_CALL" ->
         [state EXCEPT !.isInCall = TRUE, !.isCaller = TRUE, !.isReceiver = FALSE,
                       !.callStatus = "RINGING", !.remoteUser = action.receiverId]
    [] action.type = "CALL_INITIATED" ->
         [state EXCEPT !.callId = action.callId, !.channelName = action.channelName,
                       !.agoraAppId = action.agoraAppId, !.token = action.token]
    [] action.type = "INCOMING_CALL" ->
         [state EXCEPT !.isInCall = TRUE, !.isCaller = FALSE, !.isReceiver = TRUE,
                       !.callStatus = "RINGING", !.callId = action.callId,
                       !.channelName = action.channelName,
                       !.agoraAppId = action.agoraAppId, !.token = action.token,
                       !.remoteUser = "caller"]
    [] action.type = "CALL_ACCEPTED" -> [state EXCEPT !.callStatus = "CONNECTED"]
    [] action.type = "CALL_REJECTED" -> [state EXCEPT !.callStatus = "REJECTED"]
    [] action.type = "CALL_ENDED" ->
         [state EXCEPT !.callStatus = "ENDED",
                       !.duration = IF action.duration # 0 THEN action.duration ELSE @]
    [] action.type = "CALL_MISSED" -> [state EXCEPT !.callStatus = "MISSED"]
    [] action.type = "UPDATE_DURATION" -> [state EXCEPT !.duration = action.duration]
    [] action.type = "RESET_CALL" -> initialCallState
    [] OTHER -> state

\* a faulty list that forgets a missed call
EndStatusesNoMissed == {"ENDED", "REJECTED"}

\* the statuses on which the status effect leaves the channel and sets the timer
EndStatuses == {"ENDED", "REJECTED", "MISSED"}

\* the dependencies of the status effect
Deps(state) == <<state.callStatus, state.channelName, state.token>>

\* the status effect starts joinChannel / leaveChannel for this state
Joins(state) ==
  state.callStatus = "CONNECTED" /\ state.channelName # Null /\ state.token # Null
Leaves(state) == state.callStatus \in EndStatuses

Running(pc) == pc \notin {"idle", "done", "failed"}

\* leaveChannel() up to its first await
leaveChannelStart == IF localAudioTrack # Null THEN "unpublishing" ELSE "leaving"

CallIdle ==
  /\ callState = initialCallState /\ resetTimers = 0
  /\ joinPc = "idle" /\ leavePc = "idle" /\ localAudioTrack = Null
  /\ listenerPoll = "unmounted"

\* dispatch(action), the render that follows and the status effect of that
\* render (it runs when one of its dependencies changed); `fired` is 1 when the
\* dispatch is made by a reset timer. One joinChannel and one leaveChannel are
\* followed at a time, and at most MaxResetTimers timers are pending.
Dispatch(action, fired) ==
  LET next == callReducer(callState, action)
      runs == Deps(next) # Deps(callState)
  IN  /\ callState' = next
      /\ IF runs /\ Joins(next)
         THEN ~Running(joinPc) /\ joinPc' = "joining"
         ELSE UNCHANGED joinPc
      /\ IF runs /\ Leaves(next)
         THEN /\ ~Running(leavePc) /\ leavePc' = leaveChannelStart
              /\ resetTimers - fired < MaxResetTimers
              /\ resetTimers' = resetTimers - fired + 1
         ELSE /\ resetTimers' = resetTimers - fired
              /\ UNCHANGED leavePc
      /\ UNCHANGED localAudioTrack

\* AudioCallProvider.initiateCall
UserInitiateCall ==
  /\ OnlyCall
  /\ Dispatch([type |-> "INITIATE_CALL", receiverId |-> "friend"], 0)
  /\ ev' = [op |-> "dispatch", type |-> "INITIATE_CALL"]

\* the handlers useWebSocketConnection registers
WsCallInitiated ==
  /\ OnlyCall
  /\ \E c \in CallIds : Dispatch([type |-> "CALL_INITIATED"] @@ CallData(c), 0)
  /\ ev' = [op |-> "dispatch", type |-> "CALL_INITIATED"]

WsIncomingCall ==
  /\ OnlyCall
  /\ \E c \in CallIds :
       /\ Dispatch([type |-> "INCOMING_CALL"] @@ CallData(c), 0)
       /\ ev' = [op |-> "dispatch", type |-> "INCOMING_CALL", callId |-> c]

WsCallAccepted ==
  /\ OnlyCall
  /\ \E c \in CallIds :
       /\ Dispatch([type |-> "CALL_ACCEPTED", callId |-> c], 0)
       /\ ev' = [op |-> "dispatch", type |-> "CALL_ACCEPTED", callId |-> c]

WsCallRejected ==
  /\ OnlyCall
  /\ \E c \in CallIds :
       /\ Dispatch([type |-> "CALL_REJECTED", callId |-> c], 0)
       /\ ev' = [op |-> "dispatch", type |-> "CALL_REJECTED", callId |-> c]

WsCallEnded ==
  /\ OnlyCall
  /\ \E c \in CallIds, d \in 0..MaxDuration :
       /\ Dispatch([type |-> "CALL_ENDED", callId |-> c, duration |-> d], 0)
       /\ ev' = [op |-> "dispatch", type |-> "CALL_ENDED", callId |-> c]

WsCallMissed ==
  /\ OnlyCall
  /\ \E c \in CallIds :
       /\ Dispatch([type |-> "CALL_MISSED", callId |-> c], 0)
       /\ ev' = [op |-> "dispatch", type |-> "CALL_MISSED", callId |-> c]

\* the one-second interval of the duration effect
DurationTick ==
  /\ OnlyCall
  /\ callState.callStatus = "CONNECTED"
  /\ callState.duration < MaxDuration
  /\ Dispatch([type |-> "UPDATE_DURATION", duration |-> callState.duration + 1], 0)
  /\ ev' = [op |-> "dispatch", type |-> "UPDATE_DURATION"]

\* a 2 s timer set by the status effect fires
ResetTimerFire ==
  /\ OnlyCall
  /\ resetTimers > 0
  /\ Dispatch([type |-> "RESET_CALL"], 1)
  /\ ev' = [op |-> "dispatch", type |-> "RESET_CALL"]

\* joinChannel: client.join settles
JoinSettle ==
  /\ OnlyCall
  /\ joinPc = "joining"
  /\ joinPc' \in {"creating", "failed"}
  /\ ev' = NoEv
  /\ UNCHANGED <<callState, resetTimers, leavePc, localAudioTrack>>

\* createAndPublishLocalAudio: AgoraRTC.createMicrophoneAudioTrack settles
CreateTrackSettle ==
  /\ OnlyCall
  /\ joinPc = "creating"
  /\ \/ joinPc' = "publishing" /\ localAudioTrack' = "track"
     \/ joinPc' = "failed" /\ UNCHANGED localAudioTrack
  /\ ev' = NoEv
  /\ UNCHANGED <<callState, resetTimers, leavePc>>

\* createAndPublishLocalAudio: client.publish settles
PublishSettle ==
  /\ OnlyCall
  /\ joinPc = "publishing"
  /\ joinPc' \in {"done", "failed"}
  /\ ev' = NoEv
  /\ UNCHANGED <<callState, resetTimers, leavePc, localAudioTrack>>

\* leaveChannel: client.unpublish settles; the track is closed and forgotten
UnpublishSettle ==
  /\ OnlyCall
  /\ leavePc = "unpublishing"
  /\ \/ leavePc' = "leaving" /\ localAudioTrack' = Null
     \/ leavePc' = "failed" /\ UNCHANGED localAudioTrack
  /\ ev' = NoEv
  /\ UNCHANGED <<callState, resetTimers, joinPc>>

\* leaveChannel: client.leave settles
LeaveSettle ==
  /\ OnlyCall
  /\ leavePc = "leaving"
  /\ leavePc' \in {"done", "failed"}
  /\ ev' = NoEv
  /\ UNCHANGED <<callState, resetTimers, joinPc, localAudioTrack>>

\* ------------------------------------------------ the connection life cycle
NextWS ==
  \/ AppConnect
  \/ ReconnectTimerFire
  \/ \E s \in Sock : SocketOpen(s)
  \/ \E s \in Sock : ConnTimeoutFire(s)
  \/ \E s \in Sock : AuthTimeoutFire(s)
  \/ \E s \in Sock : CleanupFire(s)
  \/ \E s \in Sock : ServerAuthenticated(s)
  \/ \E s \in Sock : ServerAuthError(s)
  \/ \E s \in Sock : SocketClose(s)
  \/ Disconnect
  \/ ResetConnectionState
  \/ StorageChange

InitWS == WSFresh /\ ChatIdle /\ HttpIdle /\ CallIdle

SpecWS == InitWS /\ [][NextWS]_vars

\* C1: reconnection is bounded. reconnectAttempts never exceeds
\* maxReconnectAttempts; at most maxReconnectAttempts reconnect timers are set
\* without a socket open (or a reset of the counter) in between; and while the
\* counter is at the limit no step sets a further reconnect timer.
C1_ReconnectBounded ==
  /\ [](reconnectAttempts <= maxReconnectAttempts)
  /\ [](sinceOpen <= maxReconnectAttempts)
  /\ [][reconnectAttempts >= maxReconnectAttempts
          => reconnectTimers' <= reconnectTimers]_vars

\* an abnormal close at the limit, after maxReconnectAttempts attempts in a row
C1_Witness ==
  /\ ev.op = "close" /\ ev.code = 1006 /\ ev.sched = 0
  /\ sinceOpen = maxReconnectAttempts
  /\ reconnectAttempts = maxReconnectAttempts

\* C5: isAuthenticated holds only while the current socket has opened, has been
\* sent the authenticate request and has received 'authenticated' since; it is
\* false when there is no socket (construction, disconnect()) and right after
\* every socket close and every disconnect().
C5_Handshake ==
  /\ isAuthenticated => /\ ws # NoSock
                        /\ opened[ws] /\ srvAuthReq[ws] /\ authedOn[ws]
  /\ ws = NoSock => ~isAuthenticated
  /\ ev.op \in {"close", "disconnect"} => ~isAuthenticated

\* the handshake completed: 'authenticated' arrived and the flag is set
C5_Witness ==
  /\ ev.op = "message" /\ ev.type = "authenticated" /\ ev.invoked # <<>>
  /\ isAuthenticated /\ ws # NoSock /\ ev.sock = ws

\* --------------------------- the application using the service in a session
NextWSApp ==
  \/ AppConnect
  \/ ReconnectTimerFire
  \/ \E s \in Sock : SocketOpen(s)
  \/ \E s \in Sock : ConnTimeoutFire(s)
  \/ \E s \in Sock : AuthTimeoutFire(s)
  \/ \E s \in Sock : CleanupFire(s)
  \/ \E s \in Sock : ServerAuthenticated(s)
  \/ \E s \in Sock : ServerAuthError(s)
  \/ \E s \in Sock : SocketClose(s)
  \/ StorageChange
  \/ Logout
  \/ \E op \in CallOps : CallOp(op)
  \/ SubmitDirectMessage

SpecWSApp == InitWS /\ [][NextWSApp]_vars

\* C2: once reconnection is exhausted (counter at the limit, no reconnect timer
\* pending) and the service is not connected, a direct message the user submits
\* goes out through the REST endpoint.
C2_RestFallback ==
  (ev.op = "submit-dm" /\ ev.exhausted /\ ~ev.connected) => ev.via = "rest"

\* C6: a call message is written to the socket only by a call made while
\* isAuthenticated is true; a call made while it is false writes nothing and
\* leaves the service as it was.
C6_CallsNeedAuth ==
  /\ [](ev.op \in CallOps /\ ev.wrote # NoSock => ev.auth)
  /\ [](ev.op \in CallOps /\ ~ev.auth => ev.wrote = NoSock)
  /\ [][(ev'.op \in CallOps /\ ~isAuthenticated)
          => (ev'.wrote = NoSock /\ UNCHANGED wsVars)]_vars

\* a call attempted on an open socket whose handshake has not completed
C6_Witness ==
  /\ ev.op \in CallOps /\ ~ev.auth /\ ev.wrote = NoSock
  /\ ~isAuthenticated /\ ws # NoSock /\ readyState[ws] = "OPEN"

\* ------------------------------------------------- dispatch on a live service
\* the service connected and authenticated on socket 1, the temporary auth
\* handler already removed (its two entries stay in the map, empty)
InitDispatch ==
  /\ ws = 1
  /\ reconnectAttempts = 0
  /\ messageHandlers = [e \in {"authenticated", "error"} |-> <<>>]
  /\ isAuthenticated = TRUE
  /\ isConnecting = FALSE
  /\ readyState = [s \in Sock |-> IF s = 1 THEN "OPEN" ELSE "NONE"]
  /\ connTimer = [s \in Sock |-> FALSE]
  /\ authTimer = [s \in Sock |-> FALSE]
  /\ cleanupTimer = [s \in Sock |-> FALSE]
  /\ connPromise = [s \in Sock |-> "none"]
  /\ authPromise = [s \in Sock |-> "none"]
  /\ reconnectTimers = 0
  /\ accessToken = "valid"
  /\ srvAuthReq = [s \in Sock |-> s = 1]
  /\ appWs = "held"
  /\ opened = [s \in Sock |-> s = 1]
  /\ authedOn = [s \in Sock |-> s = 1]
  /\ regs = <<>>
  /\ sinceOpen = 0
  /\ ev = NoEv
  /\ ChatIdle /\ HttpIdle /\ CallIdle

\* the event names the application registers under in this specification
RegEvents == {"message-sent", "direct-message-sent", "friend-request-sent"}

\* a frame of any type arrives on the open socket
Inbound ==
  /\ \E t \in MsgTypes : Deliver(1, [type |-> t, field |-> "", text |-> NoText])
  /\ UNCHANGED srvAuthReq

NextDispatch ==
  \/ \E e \in RegEvents, h \in AppHandlers : On(e, h)
  \/ \E e \in RegEvents, h \in AppHandlers : Off(e, h)
  \/ Inbound

SpecDispatch == InitDispatch /\ [][NextDispatch]_vars

\* the handlers registered under an event name, in registration order
Registered(t) ==
  LET rs == SelectSeq(regs, LAMBDA r : r.e = t)
  IN  [i \in 1..Len(rs) |-> rs[i].h]

InitChat ==
  /\ WSFresh /\ accessToken = "valid"
  /\ ChatIdle /\ HttpIdle /\ CallIdle

NextChat ==
  \/ \E m \in ServerMessages : NewMessage(m)
  \/ \E c \in Contents : SendMessage(c)
  \/ \E h \in Histories : LoadMessages(h)
  \/ Tick

SpecChat == InitChat /\ [][NextChat]_vars

\* C3: no two entries of the visible list share an id.
C3_NoDuplicateIds ==
  \A i, j \in 1..Len(messages) : i # j => messages[i].id # messages[j].id

\* ----------------------------------------------------------- axios instance
InitRest ==
  /\ WSFresh /\ accessToken = "valid"
  /\ ChatIdle /\ CallIdle
  /\ lsAccessToken \in Tokens \cup {Null}
  /\ lsRefreshToken = IF lsAccessToken = Null THEN Null ELSE "t1"
  /\ tokenAtLoad = lsAccessToken
  /\ apiVersion \in {1, 2}
  /\ inflight = NoRequest
  /\ page = "/"

NextRest ==
  \/ Login
  \/ Request
  \/ \E st \in Statuses : Response(st)

SpecRest == InitRest /\ [][NextRest]_vars

\* C7: a 401 answer to a client that holds a refresh token is followed by a
\* token refresh, and the session's tokens are still stored afterwards.
C7_AutoRefresh ==
  (ev.op = "response" /\ ev.status = 401 /\ ev.hadRefreshToken)
    => (ev.refreshed /\ lsAccessToken # Null /\ lsRefreshToken # Null)

\* C8: a request leaves with 'Bearer <token>' for the token stored at that
\* moment, and with no Authorization header when none is stored.
C8_BearerHeader ==
  (ev.op = "request")
    => /\ ev.stored # Null => ev.Authorization = <<"Bearer", ev.stored>>
       /\ ev.stored = Null => ev.Authorization = NoHeader
       /\ ev.stored = lsAccessToken
       /\ inflight = <<[Authorization |-> ev.Authorization]>>

\* a request sent after the stored token was replaced by another one
C8_Witness ==
  /\ ev.op = "request" /\ ev.stored # Null
  /\ tokenAtLoad # Null /\ ev.stored # tokenAtLoad

\* ------------------------------------------------------------ audio calls
InitCall ==
  /\ WSFresh /\ accessToken = "valid"
  /\ ChatIdle /\ HttpIdle /\ CallIdle

NextCall ==
  \/ UserInitiateCall
  \/ WsCallInitiated
  \/ WsIncomingCall
  \/ WsCallAccepted
  \/ WsCallRejected
  \/ WsCallEnded
  \/ WsCallMissed
  \/ DurationTick
  \/ ResetTimerFire
  \/ JoinSettle
  \/ CreateTrackSettle
  \/ PublishSettle
  \/ UnpublishSettle
  \/ LeaveSettle

SpecCall == InitCall /\ [][NextCall]_vars

\* a timer that was set fires: setTimeout callbacks are not cancelled
SpecCallFair == SpecCall /\ WF_vars(ResetTimerFire)

\* C9: whenever callStatus is ENDED, REJECTED or MISSED the call state
\* eventually is the initial state again.
C9_ResetAfterEnd ==
  (callState.callStatus \in {"ENDED", "REJECTED", "MISSED"})
    ~> (callState = initialCallState)

\* a reset of a call that had been connected and then ended
C9_Witness ==
  /\ ev.op = "dispatch" /\ ev.type = "RESET_CALL"
  /\ callState = initialCallState
  /\ joinPc # "idle" /\ leavePc # "idle"

\* C10: once the call has ended and leaveChannel() has completed, the service
\* holds no local microphone track.
C10_TrackReleased ==
  (callState.callStatus \in {"ENDED", "REJECTED", "MISSED"} /\ leavePc = "done")
    => localAudioTrack = Null

\* ------------------------------------------ a network drop on a live service
\* the connected service of InitDispatch with one application handler registered
InitReconnect ==
  /\ ws = 1
  /\ reconnectAttempts = 0
  /\ messageHandlers = [e \in {"authenticated", "error", "new-message"} |->
                          IF e = "new-message" THEN <<[k |-> "app", id |-> 1]>>
                          ELSE <<>>]
  /\ isAuthenticated = TRUE
  /\ isConnecting = FALSE
  /\ readyState = [s \in Sock |-> IF s = 1 THEN "OPEN" ELSE "NONE"]
  /\ connTimer = [s \in Sock |-> FALSE]
  /\ authTimer = [s \in Sock |-> FALSE]
  /\ cleanupTimer = [s \in Sock |-> FALSE]
  /\ connPromise = [s \in Sock |-> "none"]
  /\ authPromise = [s \in Sock |-> "none"]
  /\ reconnectTimers = 0
  /\ accessToken = "valid"
  /\ srvAuthReq = [s \in Sock |-> s = 1]
  /\ appWs = "held"
  /\ opened = [s \in Sock |-> s = 1]
  /\ authedOn = [s \in Sock |-> s = 1]
  /\ regs = <<[e |-> "new-message", h |-> [k |-> "app", id |-> 1]]>>
  /\ sinceOpen = 0
  /\ ev = NoEv
  /\ ChatIdle /\ HttpIdle /\ CallIdle

\* the connection of an authenticated service drops
Drop ==
  /\ isAuthenticated
  /\ SocketClose(ws)

\* the server pushes an application message on an open socket
Push ==
  /\ \E s \in Sock, t \in {"new-message", "user-typing"} :
       Deliver(s, [type |-> t, field |-> "", text |-> NoText])
  /\ UNCHANGED srvAuthReq

\* The stored token stays valid, the server accepts every connection before the
\* connection timeout and answers every authenticate request with
\* 'authenticated' before the authentication timeout; nobody calls the service.
NextReconnect ==
  \/ Drop
  \/ ReconnectTimerFire
  \/ \E s \in Sock : SocketOpen(s)
  \/ \E s \in Sock : ServerAuthenticated(s)
  \/ \E s \in Sock : CleanupFire(s)
  \/ Push

SpecReconnect == InitReconnect /\ [][NextReconnect]_vars

\* timers fire, the server accepts and answers
SpecReconnectFair ==
  /\ SpecReconnect
  /\ WF_vars(ReconnectTimerFire)
  /\ \A s \in Sock : WF_vars(SocketOpen(s))
  /\ \A s \in Sock : WF_vars(ServerAuthenticated(s))
  /\ \A s \in Sock : WF_vars(CleanupFire(s))

\* C11: after an abnormal close the service eventually is authenticated again
\* (with a valid stored token and a server that accepts and answers), and the
\* handlers registered before the drop are still called for messages that
\* arrive on the new socket.
C11_Reconnects ==
  /\ (ev.op = "close" /\ ev.code # 1000 /\ isValidToken(accessToken))
       ~> isAuthenticated
  /\ [](ev.op = "message" => ev.invoked = Registered(ev.type))

\* C12: duration is 0 when a call becomes CONNECTED, a timer tick adds exactly 1
\* to it, it never decreases while the call stays CONNECTED, and no tick
\* advances it in another status.
C12_DurationCountsTicks ==
  /\ [][(callState.callStatus # "CONNECTED" /\ callState'.callStatus = "CONNECTED")
          => callState'.duration = 0]_vars
  /\ [][(callState.callStatus = "CONNECTED" /\ callState'.callStatus = "CONNECTED")
          => callState'.duration \in {callState.duration, callState.duration + 1}]_vars
  /\ [][(ev'.op = "dispatch" /\ ev'.type = "UPDATE_DURATION")
          => (/\ callState.callStatus = "CONNECTED"
              /\ callState'.duration = callState.duration + 1)]_vars

\* ------------------------------------------------ connect() called at any time
\* connect(token) called, in whatever state the service is in, by a caller
\* whose token is null, malformed or expired
ConnectCall ==
  /\ OnlyWS
  /\ \E token \in InvalidTokens : connect(token, "caller")
  /\ UNCHANGED reconnectTimers

NextWSApi ==
  \/ ConnectCall
  \/ AppConnect
  \/ ReconnectTimerFire
  \/ \E s \in Sock : SocketOpen(s)
  \/ \E s \in Sock : ConnTimeoutFire(s)
  \/ \E s \in Sock : AuthTimeoutFire(s)
  \/ \E s \in Sock : CleanupFire(s)
  \/ \E s \in Sock : ServerAuthenticated(s)
  \/ \E s \in Sock : ServerAuthError(s)
  \/ \E s \in Sock : SocketClose(s)
  \/ Disconnect
  \/ StorageChange

SpecWSApi == InitWS /\ [][NextWSApi]_vars

\* what a rejected connect() must leave behind
RejectedUntouched ==
  /\ ev'.result = "rejected" /\ ev'.err = ErrInvalidToken
  /\ UNCHANGED <<ws, sockVars, srvAuthReq, isAuthenticated, reconnectAttempts,
                 messageHandlers>>
  /\ ~isConnecting'

\* connect() returns early because a handshake is in progress or a socket is open
Shortcut == isConnecting \/ (ws # NoSock /\ readyState[ws] = "OPEN")

\* C13 as stated: in every state, connect with an invalid token rejects with
\* 'Invalid or expired token', creates no socket, sends nothing and leaves
\* isAuthenticated, reconnectAttempts and the handlers unchanged, isConnecting false.
C13_ValidatesFirst ==
  [][(ev'.op = "connect" /\ ev'.invalid) => RejectedUntouched]_vars

\* C13 amended: the same, in every state where no connection attempt is in
\* progress and the current socket is not open.
C13_ValidatesUnlessShortcut ==
  [][(ev'.op = "connect" /\ ev'.invalid /\ ~Shortcut)
       => RejectedUntouched]_vars

\* connect was called with an invalid token after an earlier connection was
\* lost, and rejected
C13_Witness ==
  /\ ev.op = "connect" /\ ev.invalid /\ ev.result = "rejected"
  /\ \E s \in Sock : readyState[s] = "CLOSED"

\* C14: once disconnect() has returned (and connect() is not called again) the
\* service creates no WebSocket and sends no message, whatever the state
\* disconnect() was called in.
C14_DisconnectStops ==
  [][appWs = "dropped" =>
       /\ \A s \in Sock : readyState'[s] = "CONNECTING" => readyState[s] = "CONNECTING"
       /\ ~(ev'.op = "open" /\ ev'.wrote # NoSock)
       /\ srvAuthReq' = srvAuthReq]_vars

\* ------------------------------------- a server that never authenticates
\* The server accepts, refuses, closes and answers with errors as it likes, but
\* never sends 'authenticated'; the application connects once and leaves the
\* service alone.
NextNoAuth ==
  \/ AppConnect
  \/ ReconnectTimerFire
  \/ \E s \in Sock : SocketOpen(s)
  \/ \E s \in Sock : ConnTimeoutFire(s)
  \/ \E s \in Sock : AuthTimeoutFire(s)
  \/ \E s \in Sock : CleanupFire(s)
  \/ \E s \in Sock : ServerAuthError(s)
  \/ \E s \in Sock : SocketClose(s)
  \/ StorageChange

SpecNoAuth == InitWS /\ [][NextNoAuth]_vars

\* every timer that is set fires
SpecNoAuthFair ==
  /\ SpecNoAuth
  /\ WF_vars(ReconnectTimerFire)
  /\ \A s \in Sock : WF_vars(ConnTimeoutFire(s))
  /\ \A s \in Sock : WF_vars(AuthTimeoutFire(s))
  /\ \A s \in Sock : WF_vars(CleanupFire(s))

\* C15: without an 'authenticated' from the server, automatic reconnection
\* eventually stops: from some point on no reconnect timer is pending (none
\* is scheduled again).
C15_ReconnectTerminates ==
  <>[](reconnectTimers = 0)

\* C16: when the server answers the authenticate message of a reconnection
\* attempt with an auth error, whatever its text, reconnectAttempts becomes
\* maxReconnectAttempts and no reconnect is scheduled.
C16_AuthFailureStops ==
  [][(/\ ev'.op = "message" /\ ev'.type = "error"
      /\ connPromise[ev'.sock] = "reconnect"
      /\ authPromise[ev'.sock] = "pending"
      /\ AuthH(ev'.sock) \in {ev'.invoked[i] : i \in 1..Len(ev'.invoked)})
       => (/\ reconnectAttempts' = maxReconnectAttempts
           /\ reconnectTimers' = reconnectTimers)]_vars

\* C17: an 'authenticated' message that arrives on the current socket after it
\* opened and before its authentication timeout fired makes isAuthenticated
\* true and settles the handshake of connect() as resolved; the timeout rejects
\* connect() only if no 'authenticated' arrived on that socket before.
C17_AuthDeadline ==
  /\ [][(/\ ev'.op = "message" /\ ev'.type = "authenticated"
         /\ ev'.sock = ws /\ appWs # "dropped"
         /\ authTimer[ev'.sock] /\ authPromise[ev'.sock] = "pending")
          => (isAuthenticated' /\ authPromise'[ev'.sock] = "none")]_vars
  /\ [][\A s \in Sock :
          (authTimer[s] /\ ~authTimer'[s] /\ authPromise[s] = "pending"
             /\ ev'.op # "message" /\ appWs # "dropped")
          => ~authedOn[s]]_vars

\* C18: whenever a promise returned by connect() resolves (at once, or when the
\* handshake of the socket it created succeeds) isConnected() is true.
C18_ResolvedMeansConnected ==
  [][(\/ (ev'.op = "connect" /\ ev'.result = "resolved")
      \/ (/\ ev'.op = "message" /\ ev'.type = "authenticated"
          /\ \E s \in Sock : connPromise[s] # "none" /\ connPromise'[s] = "none"))
       => isConnected']_vars

\* -------------------------------- AudioCallProvider's call-event listeners
\* the message types useWebSocketConnection listens to
CallSignals == <<"call-initiated", "incoming-call", "call-accepted",
                 "call-rejected", "call-ended", "call-missed">>

CallSignalSet == {CallSignals[i] : i \in 1..Len(CallSignals)}

\* checkWebSocket's test: window.wsService is set (App sets it once connect()
\* resolved) and its socket is OPEN
checkOpen == appWs = "held" /\ ws # NoSock /\ readyState[ws] = "OPEN"

\* how often checkWebSocket has registered its listeners
Rounds == Len(Registered(CallSignals[1]))

\* the six wsService.on(...) calls of one successful checkWebSocket(); the
\* closures of the n-th run are the handler [k |-> "call", id |-> n]
RECURSIVE onAll(_, _, _)
onAll(tbl, events, h) ==
  IF events = <<>> THEN tbl
  ELSE onAll(on(tbl, Head(events), h), Tail(events), h)

RECURSIVE regOnAll(_, _, _)
regOnAll(rg, events, h) ==
  IF events = <<>> THEN rg
  ELSE regOnAll(regOn(rg, Head(events), h), Tail(events), h)

\* checkWebSocket() returning true
checkWebSocket ==
  /\ checkOpen
  /\ LET h == [k |-> "call", id |-> Rounds + 1] IN
       /\ messageHandlers' = onAll(messageHandlers, CallSignals, h)
       /\ regs' = regOnAll(regs, CallSignals, h)

\* the effect of useWebSocketConnection runs when the provider mounts: the
\* listeners are registered at once, or checkWebSocket is put on a 1 s interval
ProviderMount ==
  /\ OnlyProvider
  /\ listenerPoll = "unmounted"
  /\ IF checkOpen
     THEN checkWebSocket /\ listenerPoll' = "idle"
     ELSE listenerPoll' = "polling" /\ UNCHANGED <<messageHandlers, regs>>
  /\ ev' = NoEv
  /\ UNCHANGED <<ws, reconnectAttempts, isAuthenticated, isConnecting, sockVars,
                 envVars, appWs, opened, authedOn, sinceOpen>>

\* the interval fires and finds the socket open (it does nothing otherwise);
\* nothing clears the interval while the provider stays mounted
PollTick ==
  /\ OnlyProvider
  /\ listenerPoll = "polling"
  /\ Rounds < MaxListeners
  /\ checkWebSocket
  /\ ev' = NoEv
  /\ UNCHANGED <<ws, reconnectAttempts, isAuthenticated, isConnecting, sockVars,
                 envVars, appWs, opened, authedOn, sinceOpen, listenerPoll>>

\* the server sends a call-signalling message
CallSignal ==
  /\ \E s \in Sock, t \in CallSignalSet :
       Deliver(s, [type |-> t, field |-> "", text |-> NoText])
  /\ UNCHANGED srvAuthReq

NextProvider ==
  \/ AppConnect
  \/ ReconnectTimerFire
  \/ \E s \in Sock : SocketOpen(s)
  \/ \E s \in Sock : ServerAuthenticated(s)
  \/ \E s \in Sock : CleanupFire(s)
  \/ \E s \in Sock : AuthTimeoutFire(s)
  \/ \E s \in Sock : SocketClose(s)
  \/ ProviderMount
  \/ PollTick
  \/ CallSignal

SpecProvider == InitWS /\ [][NextProvider]_vars

\* the dispatches one message caused: the provider's listeners that ran
Dispatches == SelectSeq(ev.invoked, LAMBDA h : h.k = "call")

\* C19: the provider's listeners are registered at most once per message type,
\* and a call-signalling message received once they are registered causes
\* exactly one dispatch.
C19_ListenersOnce ==
  /\ \A t \in CallSignalSet : Len(Registered(t)) <= 1
  /\ (ev.op = "message" /\ ev.type \in CallSignalSet /\ Rounds > 0)
       => Len(Dispatches) = 1

\* C20: the RESET_CALL of a 2 s timer does not reset a call that started after
\* the timer was set: fired while a call is RINGING or CONNECTED, it leaves the
\* call state as it is.
C20_ResetOnlyFinishedCall ==
  [][(/\ ev'.op = "dispatch" /\ ev'.type = "RESET_CALL"
      /\ callState.callStatus \in {"RINGING", "CONNECTED"})
       => callState' = callState]_vars

\* C21: while a call is CONNECTED, an incoming-call event for another call
\* leaves callStatus, callId, channelName, token, remoteUser and the
\* caller/receiver role unchanged.
C21_ActiveCallKept ==
  [][(/\ ev'.op = "dispatch" /\ ev'.type = "INCOMING_CALL"
      /\ callState.callStatus = "CONNECTED"
      /\ ev'.callId # callState.callId)
       => (/\ callState'.callStatus = callState.callStatus
           /\ callState'.callId = callState.callId
           /\ callState'.channelName = callState.channelName
           /\ callState'.token = callState.token
           /\ callState'.remoteUser = callState.remoteUser
           /\ callState'.isCaller = callState.isCaller
           /\ callState'.isReceiver = callState.isReceiver)]_vars

\* C22: a call-accepted, call-rejected, call-ended or call-missed event that
\* carries another callId than the current call's, or that arrives while
\* callStatus is IDLE, leaves the call state unchanged.
C22_EventsMatchCall ==
  [][(/\ ev'.op = "dispatch"
      /\ ev'.type \in {"CALL_ACCEPTED", "CALL_REJECTED", "CALL_ENDED", "CALL_MISSED"}
      /\ (ev'.callId # callState.callId \/ callState.callStatus = "IDLE"))
       => callState' = callState]_vars

\* ------------------------------------------ starting a call from the UI
\* AudioCallProvider.initiateCall(receiverId) with the service App put in
\* window.wsService (none before connect() resolved): INITIATE_CALL is
\* dispatched, then wsService.initiateCall is called; `path` is the caller
providerInitiateCall(path) ==
  /\ OnlyCall
  /\ IF appWs # "held"
     THEN /\ UNCHANGED callVars
          /\ ev' = [op |-> "initiateCall", path |-> path, dispatched |-> FALSE,
                    wrote |-> NoSock, inCall |-> callState.isInCall]
     ELSE /\ Dispatch([type |-> "INITIATE_CALL", receiverId |-> "friend"], 0)
          /\ ev' = [op |-> "initiateCall", path |-> path, dispatched |-> TRUE,
                    wrote |-> initiateCall, inCall |-> callState.isInCall]

\* CallButton.handleCall: the button is disabled while isInCall
CallButtonClick ==
  /\ ~callState.isInCall
  /\ providerInitiateCall("CallButton")

\* AudioCallDebug.testInitiateCall with a user id typed in
DebugInitiateClick == providerInitiateCall("AudioCallDebug")

NextCallUI ==
  \/ AppConnect
  \/ ReconnectTimerFire
  \/ \E s \in Sock : SocketOpen(s)
  \/ \E s \in Sock : ServerAuthenticated(s)
  \/ \E s \in Sock : CleanupFire(s)
  \/ \E s \in Sock : AuthTimeoutFire(s)
  \/ \E s \in Sock : SocketClose(s)
  \/ CallButtonClick
  \/ DebugInitiateClick
  \/ WsCallRejected
  \/ ResetTimerFire
  \/ LeaveSettle

SpecCallUI == InitCall /\ [][NextCallUI]_vars

\* C23: initiateCall moves the call state out of IDLE only if the
\* initiate-call message is written to the socket; otherwise it stays IDLE.
C23_RingingOnlyIfSent ==
  [][(/\ ev'.op = "initiateCall" /\ ev'.wrote = NoSock
      /\ callState.callStatus = "IDLE")
       => (callState'.callStatus = "IDLE" /\ ~callState'.isInCall)]_vars

\* C24: while isInCall is true no UI path invokes initiateCall (so no
\* INITIATE_CALL is dispatched and no initiate-call message is sent).
C24_OneCallAtATime ==
  [][callState.isInCall => ev'.op # "initiateCall"]_vars

\* ------------------------------------------------------ DirectMessageChat
\* direct messages the server stores in one run
MaxMsgs == 3

\* the logged-in user and the users a conversation can be opened with
Me == "me"
Friends == {"a", "b"}

\* a DirectMessage as far as the component reads it; the server gives the id,
\* and each message sent in a run has a content of its own
DMsg(i, s, r) == [id |-> i, content |-> i, senderId |-> s, receiverId |-> r]

FreshIds == (1..MaxMsgs) \ {m.id : m \in dmStored}

\* directMessageAPI.getConversation(f): the stored messages exchanged with f,
\* oldest first
RECURSIVE ById(_)
ById(S) ==
  IF S = {} THEN <<>>
  ELSE LET m == CHOOSE x \in S : \A y \in S : x.id <= y.id
       IN <<m>> \o ById(S \ {m})

getConversation(f) ==
  ById({m \in dmStored : m.senderId = f \/ m.receiverId = f})

\* prev.some(m => m.id === message.id)
exists(prev, message) == \E k \in 1..Len(prev) : prev[k].id = message.id

\* the setMessages updater both listeners use
addOnce(prev, message) ==
  IF exists(prev, message) THEN prev ELSE Append(prev, message)

handleNewDirectMessage(message) ==
  IF message.senderId = friend \/ message.receiverId = friend
  THEN addOnce(dmMessages, message)
  ELSE dmMessages

handleDirectMessageSent(message) == addOnce(dmMessages, message)

\* prev.filter(m => m.content !== message.content)
dropTemp(prev, message) ==
  SelectSeq(prev, LAMBDA m : m.content # message.content)

\* App.handleSelectConversation(f): the view becomes 'direct-chat', a
\* DirectMessageChat is mounted for f with empty lists, and its first effect
\* calls loadMessages()
handleSelectConversation(f) ==
  /\ OnlyDM
  /\ friend' = f
  /\ dmMessages' = <<>> /\ tempMessages' = <<>>
  /\ dmLoading' = TRUE
  /\ UNCHANGED <<dmStored, dmEvents>>
  /\ ev' = [op |-> "select", friend |-> f]

\* App.navigateTo(view) to a view without a DirectMessageChat
navigateTo ==
  /\ OnlyDM
  /\ friend # "none"
  /\ friend' = "none"
  /\ dmMessages' = <<>> /\ tempMessages' = <<>>
  /\ dmLoading' = FALSE
  /\ UNCHANGED <<dmStored, dmEvents>>
  /\ ev' = [op |-> "navigate"]

\* loadMessages() after its await: the response replaces the list, a failed
\* request leaves it
loadMessagesDone(success) ==
  /\ OnlyDM
  /\ dmLoading
  /\ dmLoading' = FALSE
  /\ dmMessages' = IF success THEN getConversation(friend) ELSE dmMessages
  /\ UNCHANGED <<friend, tempMessages, dmStored, dmEvents>>
  /\ ev' = [op |-> "loaded", success |-> success]

\* handleSendMessage() over the WebSocket: a temporary message is shown, the
\* server stores the message and answers direct-message-sent
handleSendMessage ==
  /\ OnlyDM
  /\ friend # "none"
  /\ \E i \in FreshIds :
       LET message == DMsg(i, Me, friend)
       IN /\ tempMessages' = Append(tempMessages, [message EXCEPT !.id = 0])
          /\ dmStored' = dmStored \cup {message}
          /\ dmEvents' = dmEvents \cup {[type |-> "direct-message-sent",
                                         message |-> message]}
          /\ ev' = [op |-> "send", message |-> message]
  /\ UNCHANGED <<friend, dmMessages, dmLoading>>

\* a friend sends a message: the server stores it and pushes new-direct-message
FriendSends(f) ==
  /\ OnlyDM
  /\ \E i \in FreshIds :
       LET message == DMsg(i, f, Me)
       IN /\ dmStored' = dmStored \cup {message}
          /\ dmEvents' = dmEvents \cup {[type |-> "new-direct-message",
                                         message |-> message]}
          /\ ev' = [op |-> "friendSends", message |-> message]
  /\ UNCHANGED <<friend, dmMessages, tempMessages, dmLoading>>

\* the service hands a direct-message event to the listeners of the mounted
\* DirectMessageChat; without one the event has no listener there
DeliverDM(e) ==
  /\ OnlyDM
  /\ e \in dmEvents
  /\ dmEvents' = dmEvents \ {e}
  /\ IF friend = "none"
     THEN UNCHANGED <<dmMessages, tempMessages>>
     ELSE IF e.type = "new-direct-message"
          THEN /\ dmMessages' = handleNewDirectMessage(e.message)
               /\ UNCHANGED tempMessages
          ELSE /\ dmMessages' = handleDirectMessageSent(e.message)
               /\ tempMessages' = dropTemp(tempMessages, e.message)
  /\ UNCHANGED <<friend, dmLoading, dmStored>>
  /\ ev' = [op |-> "deliver", type |-> e.type, message |-> e.message]

InitDM == InitCall

\* the direct-message events the service can hand over
DMEventSet ==
  [type : {"new-direct-message", "direct-message-sent"},
   message : {DMsg(i, s, r) : i \in 1..MaxMsgs, s \in {Me} \cup Friends,
                              r \in {Me} \cup Friends}]

NextDM ==
  \/ \E f \in Friends : handleSelectConversation(f)
  \/ navigateTo
  \/ \E success \in BOOLEAN : loadMessagesDone(success)
  \/ handleSendMessage
  \/ \E f \in Friends : FriendSends(f)
  \/ \E e \in DMEventSet : DeliverDM(e)

SpecDM == InitDM /\ [][NextDM]_vars

\* C25: every message in DirectMessageChat's list has the selected friend as
\* its sender or its receiver, whatever events, confirmations, history loads
\* and friend switches came before.
C25_OnlyOpenConversation ==
  \A k \in 1..Len(dmMessages) :
    dmMessages[k].senderId = friend \/ dmMessages[k].receiverId = friend
====
